---- MODULE Spec2Model ----
(***************************************************************************)
(* Model of src/app.py: the Board / UpdateHistory / User store of the SUP  *)
(* board inventory application, the request handlers that change it        *)
(* (add_board, update_board, delete_board, bulk_update, register and the   *)
(* admin routes) and the pages that read it (index, history).              *)
(* Under Requests and NextAccounts every handler runs as one step, from    *)
(* reading the form to db.session.commit(); under Steps a handler runs up  *)
(* to its commit in one step and commits in another, so that requests      *)
(* overlap.                                                                *)
(***************************************************************************)
EXTENDS Integers, Sequences, FiniteSets, TLC

\* ---------------------------------------------------------------- bounds
MaxBoardId == 2       \* largest Board.id the model lets the store assign
MaxHistId == 2        \* largest UpdateHistory.id the model lets the store assign
MaxBulk == 2          \* longest board_ids list of one bulk_update request
MaxClock == 2         \* last clock tick of a run
TicksPerMinute == 2   \* clock ticks that fall into one minute of strftime('%H:%M')
MaxUserId == 2        \* largest User.id the model lets the store assign
MaxPending == 2       \* most requests in flight at once

\* ------------------------------------------------------------ form values
None == "None"                  \* Python's None (a field missing from the form)
Other == "other"                \* the option 'その他' of location_select

\* the ids a request can name: the ids of the store and one beyond them
IdInputs == 1 .. (MaxBoardId + 1)

\* request.form.getlist('board_ids'): every list of at most MaxBulk ids
BulkIdLists == UNION { [1 .. n -> IdInputs] : n \in 0 .. MaxBulk }
\* request.form.getlist('board_ids'): no box or one box checked
SingleIdLists == { << >> } \cup { <<b>> : b \in IdInputs }

\* What requests send.  names, serials: request.form.get('name'),
\* request.form.get('serial_number'), "" for a field left empty; locations:
\* <<location_select, location_other>> (location_other is read only under
\* 'その他'); users: current_user.username; notes: request.form.get('notes');
\* lists: request.form.getlist('board_ids').
\* Requests that move boards between two locations and two users:
AuditInputs ==
    [ names |-> {"a", "b"}, serials |-> {""}, notes |-> {"n1"},
      locations |-> { <<"L1", None>>, <<Other, "L2">> },
      users |-> {"u1", "u2"}, lists |-> SingleIdLists ]
\* The same requests with bulk updates of several boards at once, and with
\* 'その他' chosen while location_other is missing from the form:
BulkInputs ==
    [ names |-> {"a", "b"}, serials |-> {""}, notes |-> {"n1"},
      locations |-> { <<"L1", None>>, <<Other, "L2">>, <<Other, None>> },
      users |-> {"u1", "u2"}, lists |-> BulkIdLists ]
\* Requests that exercise the required fields and the unique columns:
KeyInputs ==
    [ names |-> {"", "a", "b"}, serials |-> {"", "s1"}, notes |-> {"n1"},
      locations |-> { <<"", None>>, <<"L1", None>>, <<Other, None>>, <<Other, "">> },
      users |-> {"u1"}, lists |-> SingleIdLists ]
\* Requests that edit one board while the clock runs:
ClockInputs ==
    [ names |-> {"a"}, serials |-> {""}, notes |-> {"n1", "n2"},
      locations |-> { <<"L1", None>>, <<Other, "L2">> },
      users |-> {"u1", "u2"}, lists |-> SingleIdLists ]

\* Requests that reach one board while other requests are in flight:
RaceInputs ==
    [ names |-> {"a"}, serials |-> {""}, notes |-> {"n1"},
      locations |-> { <<"L1", None>>, <<Other, "L2">> },
      users |-> {"u1"}, lists |-> SingleIdLists ]

\* ------------------------------------------------------------------ state
VARIABLES
    backend,    \* "sqlite" or "postgresql": app.config['SQLALCHEMY_DATABASE_URI']
    boards,     \* table board: id -> row
    audit,      \* table update_history: set of rows
    boardSeq,   \* postgresql: last value of the sequence of board.id
    histSeq,    \* postgresql: last value of the sequence of update_history.id
    clock,      \* datetime.now(JST), in ticks
    created,    \* id -> the location and user the board was created with
    last,       \* the last request: handler, outcome, what it reported
    histHigh,   \* the highest update_history.id the store has assigned so far
    users,      \* table user: id -> row
    userSeq,    \* postgresql: last value of the sequence of user.id
    pending     \* the requests that have read the store and not yet committed

vars == <<backend, boards, audit, boardSeq, histSeq, clock, created, last, histHigh,
          users, userSeq, pending>>

\* ---------------------------------------------------------------- helpers
\* Python truthiness of a form value: None and '' are falsy
Truthy(v) == v # None /\ v # ""

\* request.form.get('serial_number') or None
OrNone(v) == IF Truthy(v) THEN v ELSE None

\* datetime.now(JST).strftime('%Y/%m/%d %H:%M'): the time cut to the minute
FormatMinute(t) == t \div TicksPerMinute

\* request.form.get('location_other') if location_select == 'その他' else location_select
ResolveLocation(location_select, location_other) ==
    IF location_select = Other THEN location_other ELSE location_select

\* not all([name, location_select])
MissingRequired(name, location_select) ==
    ~(Truthy(name) /\ Truthy(location_select))

SetMax(S) == CHOOSE m \in S : \A x \in S : x <= m

\* the id the store gives the next inserted row: sqlite takes the largest
\* rowid of the table plus one, postgresql the next value of the sequence
NextId(used, seq) ==
    IF backend = "sqlite"
    THEN (IF used = {} THEN 1 ELSE SetMax(used) + 1)
    ELSE seq + 1

AuditIds == { e.id : e \in audit }

\* Board.query.filter_by(name=name).first() is found
NameUsed(bs, name) == \E b \in DOMAIN bs : bs[b].name = name

\* mutant: the serial number is looked up in the column name
SerialUsedWrongColumn(bs, serial_number) ==
    Truthy(serial_number) /\ \E b \in DOMAIN bs : bs[b].name = serial_number

\* serial_number and Board.query.filter_by(serial_number=serial_number).first()
SerialUsed(bs, serial_number) ==
    Truthy(serial_number) /\ \E b \in DOMAIN bs : bs[b].serial_number = serial_number

\* mutant: the filter Board.id != board_id is left out
NameUsedByAny(bs, name, board_id) ==
    \E b \in DOMAIN bs : bs[b].name = name

\* mutant: Board.id == board_id in place of Board.id != board_id
NameUsedBySelf(bs, name, board_id) ==
    \E b \in DOMAIN bs : b = board_id /\ bs[b].name = name

\* Board.query.filter(Board.name == new_name, Board.id != board_id).first()
NameUsedByOther(bs, name, board_id) ==
    \E b \in DOMAIN bs : b # board_id /\ bs[b].name = name

\* new_serial_number and Board.query.filter(Board.serial_number == ..., Board.id != board_id).first()
SerialUsedByOther(bs, serial_number, board_id) ==
    Truthy(serial_number)
    /\ \E b \in DOMAIN bs : b # board_id /\ bs[b].serial_number = serial_number

\* mutant: only the location is compared
MaterialLocationOnly(previous_location, previous_user, new_location, new_user) ==
    previous_location # new_location

\* previous_location != new_location or previous_user != new_user
Material(previous_location, previous_user, new_location, new_user) ==
    previous_location # new_location \/ previous_user # new_user

\* UpdateHistory(board_id=..., previous_location=..., new_location=..., ...)
HistoryEntry(id, board_id, previous_location, new_location, updated_by, updated_at) ==
    [ id |-> id, board_id |-> board_id, previous_location |-> previous_location,
      new_location |-> new_location, updated_by |-> updated_by,
      updated_at |-> updated_at ]

\* What the request did, kept for the properties: the handler, its outcome, the
\* board it wrote (add, update, delete), the board_ids it was given (bulk), and
\* count: the rows it added to update_history (update) or updated_count (bulk).
Report(op, res, id, ids, count) ==
    [ op |-> op, res |-> res, id |-> id, ids |-> ids, count |-> count, again |-> FALSE ]

\* an update request, again: it follows a successful update of the same board
\* and submits the very values that update stored
ReportUpdate(res, id, count, again) ==
    [ op |-> "update", res |-> res, id |-> id, ids |-> << >>, count |-> count,
      again |-> again ]

\* rows of bs without the row board_id
Without(f, board_id) == [ b \in DOMAIN f \ {board_id} |-> f[b] ]
\* rows of bs with the row board_id set to row
With(f, board_id, row) ==
    [ b \in DOMAIN f \cup {board_id} |-> IF b = board_id THEN row ELSE f[b] ]

\* ------------------------------------------------------------------- Init
\* the store after db.create_all() on a new database of the given backend
InitOn(db) ==
    /\ backend = db
    /\ boards = << >>
    /\ audit = {}
    /\ boardSeq = 0
    /\ histSeq = 0
    /\ clock = 0
    /\ created = << >>
    /\ last = Report("none", "ok", 0, << >>, 0)
    /\ histHigh = 0
    /\ users = << >>
    /\ userSeq = 0
    /\ pending = << >>

\* the clock of datetime.now advances
Tick ==
    /\ clock < MaxClock
    /\ clock' = clock + 1
    /\ UNCHANGED <<backend, boards, audit, boardSeq, histSeq, created, last, histHigh,
                   users, userSeq, pending>>

\* --------------------------------------------------------------- add_board
\* the outcome of POST /add
AddBoardResult(bs, name, serial_number, location_select, location) ==
    IF MissingRequired(name, location_select) THEN "ValidationError"
    ELSE IF NameUsed(bs, name) THEN "ConflictError(name)"
    ELSE IF SerialUsed(bs, serial_number) THEN "ConflictError(serial)"
    \* nullable=False of Board.location: the INSERT fails, the session is rolled back
    ELSE IF location = None THEN "StoreError"
    ELSE "ok"

\* Board(name=name, serial_number=serial_number, location=location, user=user, ...)
BoardRow(name, serial_number, location, user, notes, updated_at) ==
    [ name |-> name, serial_number |-> serial_number, location |-> location,
      user |-> user, notes |-> notes, updated_at |-> updated_at ]

\* mutant: the board is added and committed before the serial number is checked
AddBoardInsertFirst(name, serial_form, notes, loc, user) ==
    LET serial_number == OrNone(serial_form)
        location == ResolveLocation(loc[1], loc[2])
        res == AddBoardResult(boards, name, serial_number, loc[1], location)
        id == NextId(DOMAIN boards, boardSeq)
    IN  /\ id <= MaxBoardId
        /\ IF res \in {"ok", "ConflictError(serial)"}
           THEN /\ boards' = With(boards, id,
                        BoardRow(name, serial_number, location, user, notes,
                                 FormatMinute(clock)))
                /\ created' = With(created, id, [location |-> location, user |-> user])
           ELSE UNCHANGED <<boards, created>>
        /\ last' = Report("add", res, IF res = "ok" THEN id ELSE 0, << >>, 0)
        /\ UNCHANGED <<backend, audit, boardSeq, histSeq, clock>>

AddBoard(name, serial_form, notes, loc, user) ==
    LET serial_number == OrNone(serial_form)
        location == ResolveLocation(loc[1], loc[2])
        res == AddBoardResult(boards, name, serial_number, loc[1], location)
        id == NextId(DOMAIN boards, boardSeq)
        updated_at == FormatMinute(clock)
    IN  /\ res \in {"ok", "StoreError"} => id <= MaxBoardId
        /\ IF res = "ok"
           THEN /\ boards' = With(boards, id,
                        BoardRow(name, serial_number, location, user, notes, updated_at))
                /\ created' = With(created, id, [location |-> location, user |-> user])
                /\ boardSeq' = IF backend = "postgresql" THEN id ELSE boardSeq
                /\ last' = Report("add", res, id, << >>, 0)
           ELSE /\ UNCHANGED <<boards, created>>
                \* the INSERT that fails on NOT NULL has drawn its id from the sequence
                /\ boardSeq' = IF res = "StoreError" /\ backend = "postgresql"
                               THEN id ELSE boardSeq
                /\ last' = Report("add", res, 0, << >>, 0)
        /\ UNCHANGED <<backend, audit, histSeq, clock>>

\* ------------------------------------------------------------ update_board
\* the outcome of POST /update/<board_id> for a board that exists
UpdateBoardResult(bs, board_id, name, serial_number, location_select, location) ==
    IF MissingRequired(name, location_select) THEN "ValidationError"
    ELSE IF NameUsedByOther(bs, name, board_id) THEN "ConflictError(name)"
    ELSE IF SerialUsedByOther(bs, serial_number, board_id) THEN "ConflictError(serial)"
    ELSE IF location = None THEN "StoreError"
    ELSE "ok"

\* mutant: previous_location is read after board_to_update.location was assigned
UpdateBoardEntriesStale(board, board_id, new_location, new_user, current_time_jst, hid) ==
    IF Material(board.location, board.user, new_location, new_user)
    THEN { HistoryEntry(hid, board_id, new_location, new_location, new_user,
                        current_time_jst) }
    ELSE {}

\* mutant: the history entry is added without the comparison
UpdateBoardEntriesAlways(board, board_id, new_location, new_user, current_time_jst, hid) ==
    { HistoryEntry(hid, board_id, board.location, new_location, new_user,
                   current_time_jst) }

\* the rows update_board adds to update_history
UpdateBoardEntries(board, board_id, new_location, new_user, current_time_jst, hid) ==
    IF Material(board.location, board.user, new_location, new_user)
    THEN { HistoryEntry(hid, board_id, board.location, new_location, new_user,
                        current_time_jst) }
    ELSE {}

\* Board.query.get_or_404(board_id) found no row
UpdateBoardNotFound(board_id) ==
    /\ board_id \notin DOMAIN boards
    /\ last' = ReportUpdate("NotFoundError", 0, 0, FALSE)
    /\ UNCHANGED <<backend, boards, audit, boardSeq, histSeq, clock, created>>

UpdateBoard(board_id, name, serial_form, notes, loc, user) ==
    LET serial_number == OrNone(serial_form)
        new_location == ResolveLocation(loc[1], loc[2])
    IN  /\ board_id \in DOMAIN boards
        /\ LET res == UpdateBoardResult(boards, board_id, name, serial_number,
                                        loc[1], new_location)
               current_time_jst == FormatMinute(clock)
               hid == NextId(AuditIds, histSeq)
               entries == UpdateBoardEntries(boards[board_id], board_id, new_location,
                                             user, current_time_jst, hid)
               again == /\ last.op = "update" /\ last.res = "ok" /\ last.id = board_id
                        /\ boards[board_id].name = name
                        /\ boards[board_id].serial_number = serial_number
                        /\ boards[board_id].location = new_location
                        /\ boards[board_id].user = user
                        /\ boards[board_id].notes = notes
           IN  IF res = "ok"
               THEN /\ entries # {} => hid <= MaxHistId
                    /\ audit' = audit \cup entries
                    /\ histSeq' = IF entries # {} /\ backend = "postgresql"
                                  THEN hid ELSE histSeq
                    /\ boards' = With(boards, board_id,
                            BoardRow(name, serial_number, new_location, user, notes,
                                     current_time_jst))
                    /\ last' = ReportUpdate(res, board_id, Cardinality(entries), again)
                    /\ UNCHANGED <<backend, boardSeq, clock, created>>
               ELSE /\ last' = ReportUpdate(res, 0, 0, again)
                    /\ UNCHANGED <<backend, boards, audit, boardSeq, histSeq, clock,
                                   created>>

\* ------------------------------------------------------------ delete_board
\* mutant: Board.histories without cascade="all, delete-orphan"
DeleteBoardNoCascade(board_id) ==
    IF board_id \in DOMAIN boards
    THEN /\ boards' = Without(boards, board_id)
         /\ created' = Without(created, board_id)
         /\ last' = Report("delete", "ok", board_id, << >>, 0)
         /\ UNCHANGED <<backend, audit, boardSeq, histSeq, clock>>
    ELSE /\ last' = Report("delete", "NotFoundError", 0, << >>, 0)
         /\ UNCHANGED <<backend, boards, audit, boardSeq, histSeq, clock, created>>

DeleteBoard(board_id) ==
    IF board_id \in DOMAIN boards
    THEN /\ boards' = Without(boards, board_id)
         \* cascade="all, delete-orphan" of Board.histories
         /\ audit' = { e \in audit : e.board_id # board_id }
         /\ created' = Without(created, board_id)
         /\ last' = Report("delete", "ok", board_id, << >>, 0)
         /\ UNCHANGED <<backend, boardSeq, histSeq, clock>>
    ELSE /\ last' = Report("delete", "NotFoundError", 0, << >>, 0)
         /\ UNCHANGED <<backend, boards, audit, boardSeq, histSeq, clock, created>>

\* ------------------------------------------------------------- bulk_update
\* mutant: only the location is compared
BulkMaterialLocationOnly(previous_location, previous_user, new_location, updater) ==
    previous_location # new_location

\* mutant: and in place of or
BulkMaterialBoth(previous_location, previous_user, new_location, updater) ==
    previous_location # new_location /\ previous_user # updater

\* previous_location != new_location or previous_user != updater
BulkMaterial(previous_location, previous_user, new_location, updater) ==
    previous_location # new_location \/ previous_user # updater

\* mutant: previous_location is read after board.location was assigned
BulkStepStalePrevious(st, board_id, new_location, updater, current_time_jst) ==
    LET board == st.boards[board_id]
        material == BulkMaterial(board.location, board.user, new_location, updater)
    IN  [ boards |-> With(st.boards, board_id,
                          [board EXCEPT !.location = new_location, !.user = updater,
                                        !.updated_at = current_time_jst]),
          audit |-> IF material
                    THEN st.audit \cup { HistoryEntry(st.hid, board_id, new_location,
                                             new_location, updater, current_time_jst) }
                    ELSE st.audit,
          hid |-> IF material THEN st.hid + 1 ELSE st.hid,
          updated_count |-> st.updated_count + 1 ]

\* mutant: the history entry is added, the board is left as it was
BulkStepEntryOnly(st, board_id, new_location, updater, current_time_jst) ==
    LET board == st.boards[board_id]
        material == BulkMaterial(board.location, board.user, new_location, updater)
    IN  [ boards |-> st.boards,
          audit |-> IF material
                    THEN st.audit \cup { HistoryEntry(st.hid, board_id, board.location,
                                             new_location, updater, current_time_jst) }
                    ELSE st.audit,
          hid |-> IF material THEN st.hid + 1 ELSE st.hid,
          updated_count |-> st.updated_count + 1 ]

\* one pass of "for board_id in board_ids" over a board that was found
BulkStep(st, board_id, new_location, updater, current_time_jst) ==
    LET board == st.boards[board_id]
        material == BulkMaterial(board.location, board.user, new_location, updater)
    IN  [ boards |-> With(st.boards, board_id,
                          [board EXCEPT !.location = new_location, !.user = updater,
                                        !.updated_at = current_time_jst]),
          audit |-> IF material
                    THEN st.audit \cup { HistoryEntry(st.hid, board_id, board.location,
                                             new_location, updater, current_time_jst) }
                    ELSE st.audit,
          hid |-> IF material THEN st.hid + 1 ELSE st.hid,
          updated_count |-> st.updated_count + 1 ]

\* for board_id in board_ids: board = Board.query.get(board_id); if board: ...
RECURSIVE BulkLoop(_, _, _, _, _)
BulkLoop(board_ids, st, new_location, updater, current_time_jst) ==
    IF board_ids = << >> THEN st
    ELSE LET board_id == Head(board_ids)
             next == IF board_id \in DOMAIN st.boards
                     THEN BulkStep(st, board_id, new_location, updater, current_time_jst)
                     ELSE st
         IN  BulkLoop(Tail(board_ids), next, new_location, updater, current_time_jst)

BulkUpdate(board_ids, loc, updater) ==
    LET new_location == ResolveLocation(loc[1], loc[2])
    IN  IF board_ids = << >>
        THEN /\ last' = Report("bulk", "ValidationError", 0, << >>, 0)
             /\ UNCHANGED <<backend, boards, audit, boardSeq, histSeq, clock, created>>
        ELSE \E st \in { BulkLoop(board_ids,
                              [boards |-> boards, audit |-> audit,
                               hid |-> NextId(AuditIds, histSeq), updated_count |-> 0],
                              new_location, updater, FormatMinute(clock)) } :
             IF st.updated_count > 0 /\ new_location = None
             THEN /\ last' = Report("bulk", "StoreError", 0, << >>, 0)
                  /\ UNCHANGED <<backend, boards, audit, boardSeq, histSeq, clock, created>>
             ELSE /\ st.hid - 1 <= MaxHistId
                  /\ boards' = st.boards
                  /\ audit' = st.audit
                  /\ histSeq' = IF backend = "postgresql" THEN st.hid - 1 ELSE histSeq
                  /\ last' = Report("bulk", "ok", 0, board_ids, st.updated_count)
                  /\ UNCHANGED <<backend, boardSeq, clock, created>>

\* ----------------------------------------------------------------- history
\* the row of rows with the highest id
MaxById(rows) == CHOOSE r \in rows : \A x \in rows : x.id <= r.id
\* .order_by(UpdateHistory.id.desc()).all()
RECURSIVE OrderByIdDesc(_)
OrderByIdDesc(rows) ==
    IF rows = {} THEN << >>
    ELSE <<MaxById(rows)>> \o OrderByIdDesc(rows \ {MaxById(rows)})

\* what GET /history/<board_id> answers
HistoryPage(res, histories) == [ res |-> res, histories |-> histories ]

\* mutant: Board.query.get(board_id) in place of get_or_404
HistoryWithout404(bs, au, board_id) ==
    HistoryPage("ok", OrderByIdDesc({ e \in au : e.board_id = board_id }))

\* mutant: the rows are ordered by UpdateHistory.id.asc()
HistoryAscending(bs, au, board_id) ==
    IF board_id \notin DOMAIN bs THEN HistoryPage("NotFoundError", << >>)
    ELSE LET desc == OrderByIdDesc({ e \in au : e.board_id = board_id })
         IN  HistoryPage("ok", [ i \in 1 .. Len(desc) |-> desc[Len(desc) + 1 - i] ])

\* GET /history/<board_id>: the histories handed to the page, or the 404 of
\* Board.query.get_or_404(board_id)
History(bs, au, board_id) ==
    IF board_id \notin DOMAIN bs THEN HistoryPage("NotFoundError", << >>)
    ELSE HistoryPage("ok", OrderByIdDesc({ e \in au : e.board_id = board_id }))

\* ------------------------------------------------------------------- index
\* request.args.get(key, default): a key missing from the query string
ArgOr(v, default) == IF v = None THEN default ELSE v

\* the query strings of GET /: sort_by and order, None for a key left out
SortInputs == { None, "id", "name", "location" }
OrderInputs == { None, "asc", "desc", "down" }

\* the order in which the store compares the names that requests send
NameOrder == << "", "a", "b" >>
NameRank(name) == CHOOSE i \in 1 .. Len(NameOrder) : NameOrder[i] = name

\* .order_by(Board.id.asc()).all()
RECURSIVE OrderByBoardIdAsc(_)
OrderByBoardIdAsc(ids) ==
    IF ids = {} THEN << >>
    ELSE LET first == CHOOSE b \in ids : \A x \in ids : b <= x
         IN  <<first>> \o OrderByBoardIdAsc(ids \ {first})

\* .order_by(Board.name.asc()).all()
RECURSIVE OrderByNameAsc(_, _)
OrderByNameAsc(bs, ids) ==
    IF ids = {} THEN << >>
    ELSE LET first == CHOOSE b \in ids :
                          \A x \in ids : NameRank(bs[b].name) <= NameRank(bs[x].name)
         IN  <<first>> \o OrderByNameAsc(bs, ids \ {first})

\* .order_by(Board.name.desc()).all()
RECURSIVE OrderByNameDesc(_, _)
OrderByNameDesc(bs, ids) ==
    IF ids = {} THEN << >>
    ELSE LET first == CHOOSE b \in ids :
                          \A x \in ids : NameRank(bs[b].name) >= NameRank(bs[x].name)
         IN  <<first>> \o OrderByNameDesc(bs, ids \ {first})

\* mutant: order == 'desc' is honoured without looking at sort_by
IndexDescAnyKey(bs, sort_by_arg, order_arg) ==
    IF ArgOr(order_arg, "asc") = "desc"
    THEN OrderByNameDesc(bs, DOMAIN bs)
    ELSE IF ArgOr(sort_by_arg, "id") = "name"
         THEN OrderByNameAsc(bs, DOMAIN bs)
         ELSE OrderByBoardIdAsc(DOMAIN bs)

\* GET /: all_boards, the ids of the rows in the order of the page
Index(bs, sort_by_arg, order_arg) ==
    LET sort_by == ArgOr(sort_by_arg, "id")
        order == ArgOr(order_arg, "asc")
    IN  IF sort_by = "name"
        THEN (IF order = "desc"
              THEN OrderByNameDesc(bs, DOMAIN bs)
              ELSE OrderByNameAsc(bs, DOMAIN bs))
        ELSE OrderByBoardIdAsc(DOMAIN bs)

\* the highest update_history.id assigned up to now, given the table au
HighestAssigned(high, au) ==
    IF au = {} THEN high
    ELSE IF SetMax({ e.id : e \in au }) > high THEN SetMax({ e.id : e \in au }) ELSE high

\* ------------------------------------------------- requests in flight
\* A request in flight has run its handler up to db.session.commit(): op is the
\* handler, ids the board ids it was given, loaded the rows its session read
\* (id -> row), row the values it is about to write and histories the ids of
\* the update_history rows its session has marked for deletion.
Request(op, ids, loaded, row, histories) ==
    [ op |-> op, ids |-> ids, loaded |-> loaded, row |-> row, histories |-> histories ]

\* the number of requests in flight
InFlight(p) ==
    LET RECURSIVE Sum(_)
        Sum(rs) == IF rs = {} THEN 0
                   ELSE LET r == CHOOSE x \in rs : TRUE IN p[r] + Sum(rs \ {r})
    IN  Sum(DOMAIN p)

\* p with one more request r in flight
Begin(p, r) ==
    [ x \in DOMAIN p \cup {r} |->
        IF x = r THEN (IF r \in DOMAIN p THEN p[r] + 1 ELSE 1) ELSE p[x] ]

\* p with one request r less in flight
End(p, r) ==
    IF p[r] > 1 THEN [p EXCEPT ![r] = p[r] - 1]
    ELSE [ x \in DOMAIN p \ {r} |-> p[x] ]

\* a request that has passed its checks and not yet committed
ReportPending(op, ids) == Report(op, "pending", 0, ids, 0)

\* the columns of board that the session writes
Columns == { "name", "serial_number", "location", "user", "notes", "updated_at" }

\* the columns the UPDATE of the flush sets: those whose value in the session
\* differs from the value the session loaded
Dirty(loaded_row, session_row) == { c \in Columns : session_row[c] # loaded_row[c] }

\* the row of the store after UPDATE board SET <dirty columns> WHERE id = ...
Flushed(stored_row, loaded_row, session_row) ==
    [ c \in Columns |->
        IF c \in Dirty(loaded_row, session_row) THEN session_row[c] ELSE stored_row[c] ]

\* add_board up to the line before db.session.add(new_board)
AddBoardCheck(name, serial_form, notes, loc, user) ==
    LET serial_number == OrNone(serial_form)
        location == ResolveLocation(loc[1], loc[2])
        res == AddBoardResult(boards, name, serial_number, loc[1], location)
    IN  IF res \in {"ok", "StoreError"}
        THEN /\ InFlight(pending) < MaxPending
             /\ pending' = Begin(pending,
                     Request("add", << >>, << >>,
                             BoardRow(name, serial_number, location, user, notes,
                                      FormatMinute(clock)), {}))
             /\ last' = ReportPending("add", << >>)
             /\ UNCHANGED <<backend, boards, audit, boardSeq, histSeq, clock, created>>
        ELSE /\ last' = Report("add", res, 0, << >>, 0)
             /\ UNCHANGED <<backend, boards, audit, boardSeq, histSeq, clock, created,
                            pending>>

\* add_board: db.session.add(new_board); db.session.commit().  The INSERT
\* fails on NOT NULL of location and on the unique columns name and
\* serial_number; the handler catches nothing.
AddBoardCommit(r) ==
    LET id == NextId(DOMAIN boards, boardSeq)
        res == IF r.row.location = None THEN "StoreError"
               ELSE IF NameUsed(boards, r.row.name) THEN "StoreError"
               ELSE IF SerialUsed(boards, r.row.serial_number) THEN "StoreError"
               ELSE "ok"
    IN  /\ r.op = "add"
        /\ id <= MaxBoardId
        /\ pending' = End(pending, r)
        /\ boardSeq' = IF backend = "postgresql" THEN id ELSE boardSeq
        /\ IF res = "ok"
           THEN /\ boards' = With(boards, id, r.row)
                /\ created' = With(created, id,
                                   [location |-> r.row.location, user |-> r.row.user])
                /\ last' = Report("add", res, id, << >>, 0)
           ELSE /\ UNCHANGED <<boards, created>>
                /\ last' = Report("add", res, 0, << >>, 0)
        /\ UNCHANGED <<backend, audit, histSeq, clock>>

\* update_board up to the line before db.session.commit(), for a board that
\* exists
UpdateBoardLoad(board_id, name, serial_form, notes, loc, user) ==
    LET serial_number == OrNone(serial_form)
        new_location == ResolveLocation(loc[1], loc[2])
    IN  /\ board_id \in DOMAIN boards
        /\ LET res == UpdateBoardResult(boards, board_id, name, serial_number,
                                        loc[1], new_location)
           IN  IF res \in {"ok", "StoreError"}
               THEN /\ InFlight(pending) < MaxPending
                    /\ pending' = Begin(pending,
                            Request("update", <<board_id>>,
                                    With(<< >>, board_id, boards[board_id]),
                                    BoardRow(name, serial_number, new_location, user,
                                             notes, FormatMinute(clock)), {}))
                    /\ last' = ReportPending("update", <<board_id>>)
               ELSE /\ last' = ReportUpdate(res, 0, 0, FALSE)
                    /\ UNCHANGED pending
        /\ UNCHANGED <<backend, boards, audit, boardSeq, histSeq, clock, created>>

\* update_board: db.session.commit().  The flush sends UPDATE board for the
\* dirty columns, which fails when no row has the id any more, on NOT NULL of
\* location and on the unique columns, and INSERT INTO update_history for the
\* entry added at l.207-209 from the values the session loaded.
UpdateBoardCommit(r) ==
    /\ r.op = "update"
    /\ LET board_id == r.ids[1]
           board == r.loaded[board_id]
           dirty == Dirty(board, r.row)
           hid == NextId(AuditIds, histSeq)
           entries == UpdateBoardEntries(board, board_id, r.row.location, r.row.user,
                                         r.row.updated_at, hid)
           res == IF dirty = {} THEN "ok"
                  ELSE IF r.row.location = None THEN "StoreError"
                  ELSE IF board_id \notin DOMAIN boards THEN "StoreError"
                  ELSE IF "name" \in dirty /\ NameUsedByOther(boards, r.row.name, board_id)
                       THEN "StoreError"
                  ELSE IF /\ "serial_number" \in dirty
                          /\ SerialUsedByOther(boards, r.row.serial_number, board_id)
                       THEN "StoreError"
                  ELSE "ok"
       IN  /\ pending' = End(pending, r)
           /\ IF res = "ok" /\ dirty # {}
              THEN /\ entries # {} => hid <= MaxHistId
                   /\ boards' = With(boards, board_id,
                                     Flushed(boards[board_id], board, r.row))
                   /\ audit' = audit \cup entries
                   /\ histSeq' = IF entries # {} /\ backend = "postgresql"
                                 THEN hid ELSE histSeq
                   /\ last' = ReportUpdate(res, board_id, Cardinality(entries), FALSE)
              ELSE /\ UNCHANGED <<boards, audit, histSeq>>
                   /\ last' = ReportUpdate(res, IF res = "ok" THEN board_id ELSE 0, 0,
                                           FALSE)
    /\ UNCHANGED <<backend, boardSeq, clock, created>>

\* delete_board up to the line before db.session.commit():
\* db.session.delete(board_to_delete) loads board_to_delete.histories and marks
\* the rows it finds for deletion
DeleteBoardLoad(board_id) ==
    /\ IF board_id \in DOMAIN boards
       THEN /\ InFlight(pending) < MaxPending
            /\ pending' = Begin(pending,
                    Request("delete", <<board_id>>,
                            With(<< >>, board_id, boards[board_id]),
                            boards[board_id],
                            { e.id : e \in { x \in audit : x.board_id = board_id } }))
            /\ last' = ReportPending("delete", <<board_id>>)
       ELSE /\ last' = Report("delete", "NotFoundError", 0, << >>, 0)
            /\ UNCHANGED pending
    /\ UNCHANGED <<backend, boards, audit, boardSeq, histSeq, clock, created>>

\* delete_board: db.session.commit().  The flush deletes the marked
\* update_history rows by id and the board row by id; a row that is gone
\* already only draws a warning.  sqlite does not enforce the foreign key of
\* update_history.board_id (no PRAGMA foreign_keys), postgresql refuses to
\* delete a board that a row of update_history still references.
DeleteBoardCommit(r) ==
    /\ r.op = "delete"
    /\ LET board_id == r.ids[1]
           kept == { e \in audit : e.id \notin r.histories }
           res == IF /\ backend = "postgresql"
                     /\ board_id \in DOMAIN boards
                     /\ \E e \in kept : e.board_id = board_id
                  THEN "StoreError" ELSE "ok"
       IN  /\ pending' = End(pending, r)
           /\ IF res = "ok"
              THEN /\ boards' = Without(boards, board_id)
                   /\ created' = Without(created, board_id)
                   /\ audit' = kept
                   /\ last' = Report("delete", "ok", board_id, << >>, 0)
              ELSE /\ UNCHANGED <<boards, created, audit>>
                   /\ last' = Report("delete", res, 0, << >>, 0)
    /\ UNCHANGED <<backend, boardSeq, histSeq, clock>>

\* bulk_update up to the line before db.session.commit(): the loop has read
\* every board of board_ids that exists
BulkUpdateLoad(board_ids, loc, updater) ==
    LET new_location == ResolveLocation(loc[1], loc[2])
        found == { board_ids[i] : i \in 1 .. Len(board_ids) } \cap DOMAIN boards
    IN  /\ IF board_ids = << >>
           THEN /\ last' = Report("bulk", "ValidationError", 0, << >>, 0)
                /\ UNCHANGED pending
           ELSE IF found = {}
           THEN /\ last' = Report("bulk", "ok", 0, board_ids, 0)
                /\ UNCHANGED pending
           ELSE /\ InFlight(pending) < MaxPending
                /\ pending' = Begin(pending,
                        Request("bulk", board_ids, [ b \in found |-> boards[b] ],
                                BoardRow(None, None, new_location, updater, None,
                                         FormatMinute(clock)), {}))
                /\ last' = ReportPending("bulk", board_ids)
        /\ UNCHANGED <<backend, boards, audit, boardSeq, histSeq, clock, created>>

\* bulk_update: db.session.commit() for updated_count > 0.  The entries and the
\* dirty columns come from the rows the loop read; the UPDATE of a board fails
\* when no row has the id any more, and everything fails on NOT NULL.
BulkUpdateCommit(r) ==
    /\ r.op = "bulk"
    /\ \E st \in { BulkLoop(r.ids,
                        [boards |-> r.loaded, audit |-> audit,
                         hid |-> NextId(AuditIds, histSeq), updated_count |-> 0],
                        r.row.location, r.row.user, r.row.updated_at) } :
         LET res == IF r.row.location = None THEN "StoreError"
                    ELSE IF \E b \in DOMAIN r.loaded :
                                /\ Dirty(r.loaded[b], st.boards[b]) # {}
                                /\ b \notin DOMAIN boards
                         THEN "StoreError"
                    ELSE "ok"
         IN  /\ pending' = End(pending, r)
             /\ IF res = "ok"
                THEN /\ st.hid - 1 <= MaxHistId
                     /\ boards' = [ b \in DOMAIN boards |->
                                      IF b \in DOMAIN r.loaded
                                      THEN Flushed(boards[b], r.loaded[b], st.boards[b])
                                      ELSE boards[b] ]
                     /\ audit' = st.audit
                     /\ histSeq' = IF backend = "postgresql" THEN st.hid - 1 ELSE histSeq
                     /\ last' = Report("bulk", "ok", 0, r.ids, st.updated_count)
                ELSE /\ UNCHANGED <<boards, audit, histSeq>>
                     /\ last' = Report("bulk", res, 0, << >>, 0)
    /\ UNCHANGED <<backend, boardSeq, clock, created>>

\* any one step of a request: it runs up to its commit, or it commits
Steps(inputs) ==
    /\ \/ \E name \in inputs.names, serial \in inputs.serials, notes \in inputs.notes,
             loc \in inputs.locations, user \in inputs.users :
               AddBoardCheck(name, serial, notes, loc, user)
       \/ \E r \in DOMAIN pending : AddBoardCommit(r)
       \/ \E board_id \in IdInputs :
               UpdateBoardNotFound(board_id) /\ UNCHANGED pending
       \/ \E board_id \in IdInputs, name \in inputs.names, serial \in inputs.serials,
             notes \in inputs.notes, loc \in inputs.locations, user \in inputs.users :
               UpdateBoardLoad(board_id, name, serial, notes, loc, user)
       \/ \E r \in DOMAIN pending : UpdateBoardCommit(r)
       \/ \E board_id \in IdInputs : DeleteBoardLoad(board_id)
       \/ \E r \in DOMAIN pending : DeleteBoardCommit(r)
       \/ \E board_ids \in inputs.lists, loc \in inputs.locations, user \in inputs.users :
               BulkUpdateLoad(board_ids, loc, user)
       \/ \E r \in DOMAIN pending : BulkUpdateCommit(r)
    /\ histHigh' = HighestAssigned(histHigh, audit')
    /\ UNCHANGED <<users, userSeq>>

\* ------------------------------------------------------------------- users
\* what the account pages send: username and password of POST /register, the
\* username given to flask promote-admin, and the user_id of the admin routes
AccountInputs ==
    [ usernames |-> {"", "u1", "u2"}, passwords |-> {"", "p"},
      ids |-> 1 .. (MaxUserId + 1) ]

\* what the board tables and the requests in flight are to the account pages
boardVars ==
    <<backend, boards, audit, boardSeq, histSeq, clock, created, histHigh, pending>>

\* what an account request did: the handler, its outcome, the user_id it named
\* (id) and current_user.id (ids)
AccountReport(op, res, actor, user_id) ==
    [ op |-> op, res |-> res, id |-> user_id, ids |-> <<actor>>, count |-> 0,
      again |-> FALSE ]

\* User.query.filter_by(username=username).first() is found
UsernameUsed(us, username) == \E u \in DOMAIN us : us[u].username = username

\* POST /register
Register(username, password) ==
    LET res == IF ~Truthy(username) \/ ~Truthy(password) THEN "ValidationError"
               ELSE IF UsernameUsed(users, username) THEN "ConflictError(username)"
               ELSE "ok"
        id == NextId(DOMAIN users, userSeq)
    IN  /\ res = "ok" => id <= MaxUserId
        /\ IF res = "ok"
           THEN /\ users' = With(users, id, [username |-> username, is_admin |-> FALSE])
                /\ userSeq' = IF backend = "postgresql" THEN id ELSE userSeq
           ELSE UNCHANGED <<users, userSeq>>
        /\ last' = AccountReport("register", res, 0, IF res = "ok" THEN id ELSE 0)
        /\ UNCHANGED boardVars

\* flask promote-admin <username>
PromoteAdminCommand(username) ==
    /\ IF UsernameUsed(users, username)
       THEN /\ users' = [ u \in DOMAIN users |->
                            IF users[u].username = username
                            THEN [users[u] EXCEPT !.is_admin = TRUE] ELSE users[u] ]
            /\ last' = AccountReport("promote-admin", "ok", 0, 0)
       ELSE /\ users' = users
            /\ last' = AccountReport("promote-admin", "NotFoundError", 0, 0)
    /\ UNCHANGED <<userSeq, boardVars>>

\* admin_required: the outcome for current_user, None when the handler runs
AdminRequired(us, actor) ==
    IF ~us[actor].is_admin THEN "Forbidden" ELSE None

\* POST /admin/promote/<user_id> by the logged-in user actor
PromoteUser(actor, user_id) ==
    /\ actor \in DOMAIN users
    /\ LET res == IF AdminRequired(users, actor) # None THEN AdminRequired(users, actor)
                  ELSE IF user_id \notin DOMAIN users THEN "NotFoundError"
                  ELSE "ok"
       IN  /\ users' = IF res = "ok"
                       THEN [users EXCEPT ![user_id].is_admin = TRUE] ELSE users
           /\ last' = AccountReport("promote", res, actor, user_id)
    /\ UNCHANGED <<userSeq, boardVars>>

\* mutant: the check current_user.id == user_id is left out
DemoteUserUnguarded(actor, user_id) ==
    /\ actor \in DOMAIN users
    /\ LET res == IF AdminRequired(users, actor) # None THEN AdminRequired(users, actor)
                  ELSE IF user_id \notin DOMAIN users THEN "NotFoundError"
                  ELSE "ok"
       IN  /\ users' = IF res = "ok"
                       THEN [users EXCEPT ![user_id].is_admin = FALSE] ELSE users
           /\ last' = AccountReport("demote", res, actor, user_id)
    /\ UNCHANGED <<userSeq, boardVars>>

\* POST /admin/demote/<user_id> by the logged-in user actor
DemoteUser(actor, user_id) ==
    /\ actor \in DOMAIN users
    /\ LET res == IF AdminRequired(users, actor) # None THEN AdminRequired(users, actor)
                  ELSE IF actor = user_id THEN "SelfDemotionError"
                  ELSE IF user_id \notin DOMAIN users THEN "NotFoundError"
                  ELSE "ok"
       IN  /\ users' = IF res = "ok"
                       THEN [users EXCEPT ![user_id].is_admin = FALSE] ELSE users
           /\ last' = AccountReport("demote", res, actor, user_id)
    /\ UNCHANGED <<userSeq, boardVars>>

\* POST /admin/delete/<user_id> by the logged-in user actor
DeleteUser(actor, user_id) ==
    /\ actor \in DOMAIN users
    /\ LET res == IF AdminRequired(users, actor) # None THEN AdminRequired(users, actor)
                  ELSE IF actor = user_id THEN "SelfDeletionError"
                  ELSE IF user_id \notin DOMAIN users THEN "NotFoundError"
                  ELSE "ok"
       IN  /\ users' = IF res = "ok" THEN Without(users, user_id) ELSE users
           /\ last' = AccountReport("delete_user", res, actor, user_id)
    /\ UNCHANGED <<userSeq, boardVars>>

\* any one request to the account pages, or one run of the command
NextAccounts ==
    \/ \E username \in AccountInputs.usernames, password \in AccountInputs.passwords :
            Register(username, password)
    \/ \E username \in AccountInputs.usernames : PromoteAdminCommand(username)
    \/ \E actor \in AccountInputs.ids, user_id \in AccountInputs.ids :
            PromoteUser(actor, user_id)
    \/ \E actor \in AccountInputs.ids, user_id \in AccountInputs.ids :
            DemoteUser(actor, user_id)
    \/ \E actor \in AccountInputs.ids, user_id \in AccountInputs.ids :
            DeleteUser(actor, user_id)

\* ------------------------------------------------------------------- Next
\* any one request whose form values come from inputs, handled from its first
\* line to its last while no other request is in flight
Requests(inputs) ==
    /\ \/ \E name \in inputs.names, serial \in inputs.serials, notes \in inputs.notes,
             loc \in inputs.locations, user \in inputs.users :
               AddBoard(name, serial, notes, loc, user)
       \/ \E board_id \in IdInputs : UpdateBoardNotFound(board_id)
       \/ \E board_id \in IdInputs, name \in inputs.names, serial \in inputs.serials,
             notes \in inputs.notes, loc \in inputs.locations, user \in inputs.users :
               UpdateBoard(board_id, name, serial, notes, loc, user)
       \/ \E board_id \in IdInputs : DeleteBoard(board_id)
       \/ \E board_ids \in inputs.lists, loc \in inputs.locations, user \in inputs.users :
               BulkUpdate(board_ids, loc, user)
    /\ histHigh' = HighestAssigned(histHigh, audit')
    /\ UNCHANGED <<users, userSeq, pending>>

Next == Requests(AuditInputs)
NextBulk == Requests(BulkInputs)
NextKeys == Requests(KeyInputs)
NextClock == Tick \/ Requests(ClockInputs)
NextRace == Steps(RaceInputs)

\* DATABASE_URL is not set: the sqlite file boards.db
Init == InitOn("sqlite")

\* requests over AuditInputs, the clock standing still
Spec == Init /\ [][Next]_vars
\* requests over BulkInputs, the clock standing still
SpecBulk == Init /\ [][NextBulk]_vars
\* requests over KeyInputs, the clock standing still
SpecKeys == Init /\ [][NextKeys]_vars
\* requests over ClockInputs while the clock advances
SpecClock == Init /\ [][NextClock]_vars
\* requests over RaceInputs that run side by side, the clock standing still
SpecRace == Init /\ [][NextRace]_vars
\* registrations, the promote-admin command and requests to the admin routes
SpecAccounts == Init /\ [][NextAccounts]_vars

\* ============================================================== properties
Existing == DOMAIN boards
\* the update_history rows of board b
EntriesOf(b) == { e \in audit : e.board_id = b }
\* the row of board b with the highest id
LatestEntry(b) == CHOOSE e \in EntriesOf(b) : \A x \in EntriesOf(b) : x.id <= e.id
ElementsOf(ids) == { ids[i] : i \in 1 .. Len(ids) }
NoDuplicates(ids) == \A i, j \in 1 .. Len(ids) : i # j => ids[i] # ids[j]
Rejections ==
    { "ValidationError", "ConflictError(name)", "ConflictError(serial)", "NotFoundError" }

\* C1: in every reachable state no two existing boards have the same name.
C1_UniqueNames ==
    \A b1, b2 \in Existing : b1 # b2 => boards[b1].name # boards[b2].name

\* two boards exist and a request that asked for a used name was turned down
C1_Witness ==
    /\ Cardinality(Existing) = 2
    /\ last.op = "update" /\ last.res = "ConflictError(name)"

\* C2: no two existing boards share a non-empty serial number, and a request
\* whose serial number is empty is never turned down for a serial conflict,
\* whatever boards exist: neither by add_board nor by update_board.
C2_UniqueSerials ==
    /\ \A b1, b2 \in Existing :
          b1 # b2 /\ Truthy(boards[b1].serial_number)
              => boards[b1].serial_number # boards[b2].serial_number
    /\ \A name \in KeyInputs.names, loc \in KeyInputs.locations :
          /\ AddBoardResult(boards, name, OrNone(""), loc[1],
                            ResolveLocation(loc[1], loc[2])) # "ConflictError(serial)"
          /\ \A b \in Existing :
                UpdateBoardResult(boards, b, name, OrNone(""), loc[1],
                                  ResolveLocation(loc[1], loc[2])) # "ConflictError(serial)"

\* a second board without a serial number has just been added
C2_Witness ==
    /\ Cardinality(Existing) = 2
    /\ \A b \in Existing : boards[b].serial_number = None
    /\ last.op = "add" /\ last.res = "ok"

\* C3: every existing board that has audit entries carries the new_location and
\* updated_by of its entry with the highest id; a board without entries carries
\* the location and user it was created with.
C3_BoardMatchesLatestEntry ==
    \A b \in Existing :
        IF EntriesOf(b) # {}
        THEN /\ boards[b].location = LatestEntry(b).new_location
             /\ boards[b].user = LatestEntry(b).updated_by
        ELSE /\ boards[b].location = created[b].location
             /\ boards[b].user = created[b].user

\* one board has two entries, another has none, after an update or a bulk update
C3_Witness ==
    /\ last.op \in {"update", "bulk"} /\ last.res = "ok"
    /\ \E b \in Existing : Cardinality(EntriesOf(b)) = 2
    /\ \E b \in Existing : EntriesOf(b) = {}

\* C4: a successful update_board adds exactly one audit entry when it changes
\* the board's location or user, and none otherwise; the entry holds the
\* location before the call, the location after it and the new user.
C4_UpdateWritesOneEntry ==
    [][ (last'.op = "update" /\ last'.res = "ok") =>
            LET b == last'.id
                added == audit' \ audit
            IN  /\ audit \subseteq audit'
                /\ IF \/ boards[b].location # boards'[b].location
                      \/ boards[b].user # boards'[b].user
                   THEN \E e \in added :
                            /\ added = {e}
                            /\ e.board_id = b
                            /\ e.previous_location = boards[b].location
                            /\ e.new_location = boards'[b].location
                            /\ e.updated_by = boards'[b].user
                   ELSE added = {} ]_vars

\* an update that changed the user alone has written an entry
C4_Witness ==
    /\ last.op = "update" /\ last.res = "ok" /\ last.count = 1
    /\ \E e \in EntriesOf(last.id) :
          /\ e.previous_location = e.new_location
          /\ e.id = LatestEntry(last.id).id

\* C5: a successful add_board leaves update_history as it was, and the new
\* board has no history.
C5_AddWritesNoEntry ==
    [][ (last'.op = "add" /\ last'.res = "ok") =>
            /\ audit' = audit
            /\ last'.id \notin DOMAIN boards
            /\ last'.id \in DOMAIN boards'
            /\ \A e \in audit' : e.board_id # last'.id ]_vars

\* a board has been added while update_history holds entries of another board
C5_Witness ==
    /\ last.op = "add" /\ last.res = "ok"
    /\ audit # {}

\* an update of board b that submits the location and the user the board has
NotesOnlyUpdate(b, name, serial, notes, loc, user) ==
    /\ last'.op = "update" /\ last'.res = "ok"
    /\ b \in DOMAIN boards
    /\ ResolveLocation(loc[1], loc[2]) = boards[b].location
    /\ user = boards[b].user
    /\ UpdateBoard(b, name, serial, notes, loc, user)

\* C6 as claimed: an update that keeps location and user leaves update_history
\* unchanged, stores the submitted name, serial number and notes, and changes
\* the board's updated_at.
C6_UpdatedAtChangesEveryTime ==
    [][ \A b \in IdInputs, name \in ClockInputs.names, serial \in ClockInputs.serials,
           notes \in ClockInputs.notes, loc \in ClockInputs.locations,
           user \in ClockInputs.users :
            NotesOnlyUpdate(b, name, serial, notes, loc, user) =>
                /\ audit' = audit
                /\ boards'[b].name = name
                /\ boards'[b].serial_number = OrNone(serial)
                /\ boards'[b].notes = notes
                /\ boards'[b].updated_at # boards[b].updated_at ]_vars

\* C6 as amended: an update that keeps location and user leaves update_history
\* unchanged, stores the submitted name, serial number and notes, and sets
\* updated_at to the time of the call cut to the minute: updated_at changes
\* exactly when the board was last written in an earlier minute.
C6_UpdatedAtIsMinuteOfCall ==
    [][ \A b \in IdInputs, name \in ClockInputs.names, serial \in ClockInputs.serials,
           notes \in ClockInputs.notes, loc \in ClockInputs.locations,
           user \in ClockInputs.users :
            NotesOnlyUpdate(b, name, serial, notes, loc, user) =>
                /\ audit' = audit
                /\ boards'[b].name = name
                /\ boards'[b].serial_number = OrNone(serial)
                /\ boards'[b].notes = notes
                /\ boards'[b].updated_at = FormatMinute(clock)
                /\ (boards'[b].updated_at # boards[b].updated_at)
                       <=> (boards[b].updated_at < FormatMinute(clock)) ]_vars

\* a notes-only update in a later minute than the board's creation: the notes
\* and updated_at are new, update_history is still empty
C6_Witness ==
    /\ last.op = "update" /\ last.res = "ok" /\ last.count = 0
    /\ audit = {}
    /\ boards[last.id].updated_at = 1

\* C7 as claimed: an update that repeats the update before it succeeds, adds no
\* audit entry and leaves name, serial number, location, user and notes; the
\* two calls together have added exactly one entry, the first call's.
C7_RepeatedUpdateOneEntry ==
    [][ (last'.op = "update" /\ last'.again) =>
            /\ last'.res = "ok"
            /\ audit' = audit
            /\ LET b == last.id
               IN  /\ b \in DOMAIN boards'
                   /\ boards'[b].name = boards[b].name
                   /\ boards'[b].serial_number = boards[b].serial_number
                   /\ boards'[b].location = boards[b].location
                   /\ boards'[b].user = boards[b].user
                   /\ boards'[b].notes = boards[b].notes
            /\ last.count = 1 ]_vars

\* C7 as amended: an update that repeats the update before it succeeds, adds no
\* audit entry and leaves name, serial number, location, user and notes; the
\* two calls together have added what the first call added: one entry, the
\* board's latest, or none.
C7_RepeatedUpdateAddsNothing ==
    [][ (last'.op = "update" /\ last'.again) =>
            /\ last'.res = "ok"
            /\ last'.count = 0
            /\ audit' = audit
            /\ LET b == last.id
               IN  /\ b \in DOMAIN boards'
                   /\ boards'[b].name = boards[b].name
                   /\ boards'[b].serial_number = boards[b].serial_number
                   /\ boards'[b].location = boards[b].location
                   /\ boards'[b].user = boards[b].user
                   /\ boards'[b].notes = boards[b].notes
            /\ last.count \in {0, 1}
            /\ last.count = 1 =>
                  /\ LatestEntry(last.id).new_location = boards[last.id].location
                  /\ LatestEntry(last.id).updated_by = boards[last.id].user ]_vars

\* the second of two identical updates, the first of which wrote an entry
C7_Witness ==
    /\ last.op = "update" /\ last.again /\ last.res = "ok"
    /\ EntriesOf(last.id) # {}
    /\ Cardinality(Existing) = 2

\* C8: a request that ends in ValidationError, ConflictError or NotFoundError
\* leaves the boards and update_history as they were.
C8_RejectionWritesNothing ==
    [][ last'.res \in Rejections => boards' = boards /\ audit' = audit ]_vars

\* an add_board for a used serial number has been turned down
C8_Witness ==
    /\ last.op = "add" /\ last.res = "ConflictError(serial)"
    /\ Existing # {}

\* C9 as claimed: after a successful add_board or update_board the board's name
\* and location are not empty.
C9_NoEmptyNameOrLocation ==
    (last.op \in {"add", "update"} /\ last.res = "ok") =>
        /\ Truthy(boards[last.id].name)
        /\ Truthy(boards[last.id].location)

\* what a bulk update of the boards board_ids to new_location by updater leaves
BulkOutcome(board_ids, new_location, updater) ==
    LET found == ElementsOf(board_ids) \cap DOMAIN boards
        added == audit' \ audit
    IN  /\ last'.count = Cardinality(found)
        /\ DOMAIN boards' = DOMAIN boards
        /\ audit \subseteq audit'
        /\ \A e \in added : e.board_id \in found
        /\ \A b \in DOMAIN boards :
              IF b \in found
              THEN /\ boards'[b].location = new_location
                   /\ boards'[b].user = updater
                   /\ IF boards[b].location # new_location \/ boards[b].user # updater
                      THEN Cardinality({ e \in added : e.board_id = b }) = 1
                      ELSE { e \in added : e.board_id = b } = {}
              ELSE boards'[b] = boards[b]

\* C10: a bulk update over a non-empty list of distinct ids reports as many
\* boards as ids of the list exist; each of them ends with the new location and
\* user and gains one audit entry if either changed, none otherwise; ids of no
\* board add no board and no entry.
C10_BulkCountsFoundBoards ==
    [][ \A loc \in BulkInputs.locations, user \in BulkInputs.users :
            ( /\ last'.op = "bulk" /\ last'.res = "ok"
              /\ NoDuplicates(last'.ids)
              /\ BulkUpdate(last'.ids, loc, user) )
                => BulkOutcome(last'.ids, ResolveLocation(loc[1], loc[2]), user) ]_vars

\* a bulk update over an existing board and an id of no board: one board is
\* counted and it has an entry, while a second board stands untouched
C10_Witness ==
    /\ last.op = "bulk" /\ last.res = "ok"
    /\ Len(last.ids) = 2 /\ NoDuplicates(last.ids)
    /\ ~(ElementsOf(last.ids) \subseteq Existing)
    /\ last.count = 1
    /\ Cardinality(Existing) = 2
    /\ \E b \in ElementsOf(last.ids) \cap Existing : EntriesOf(b) # {}

\* C11: a delete_board of an existing board removes the board and every audit
\* entry of it, after which its history page answers NotFoundError, and leaves
\* every other board and the entries of every other board as they were; a
\* delete_board of an id of no board answers NotFoundError and changes nothing.
C11_DeleteRemovesBoardAndEntries ==
    [][ \A b \in IdInputs :
            DeleteBoard(b) =>
                IF b \in DOMAIN boards
                THEN /\ last'.res = "ok"
                     /\ DOMAIN boards' = DOMAIN boards \ {b}
                     /\ \A e \in audit' : e.board_id # b
                     /\ History(boards', audit', b).res = "NotFoundError"
                     /\ \A c \in DOMAIN boards' : boards'[c] = boards[c]
                     /\ audit' = { e \in audit : e.board_id # b }
                ELSE /\ last'.res = "NotFoundError"
                     /\ boards' = boards
                     /\ audit' = audit ]_vars

\* a board has been deleted together with the first audit entry, while another
\* board and its entry, written later, remain
C11_Witness ==
    /\ last.op = "delete" /\ last.res = "ok"
    /\ Existing # {}
    /\ \E e \in audit : e.id = 2
    /\ \A e \in audit : e.id # 1

\* one step of an append-only log: an entry of the log stays as it
\* is, unless its board is deleted, which removes it; the history page of every
\* board lists exactly the board's entries, the highest id first
LogIsAppendOnly ==
    /\ \A e \in audit :
          \/ e \in audit'
          \/ /\ last'.op = "delete" /\ last'.res = "ok" /\ last'.id = e.board_id
             /\ \A x \in audit' : x.id # e.id
    /\ \A b \in IdInputs :
          LET page == History(boards', audit', b)
              rows == page.histories
          IN  IF b \in DOMAIN boards'
              THEN /\ page.res = "ok"
                   /\ { rows[i] : i \in 1 .. Len(rows) } = { e \in audit' : e.board_id = b }
                   /\ \A i, j \in 1 .. Len(rows) : i < j => rows[i].id > rows[j].id
              ELSE page.res = "NotFoundError"

C14_ListIsSorted ==
    \A sort_by \in SortInputs, order \in OrderInputs :
        LET page == Index(boards, sort_by, order)
            Name(i) == NameRank(boards[page[i]].name)
        IN  /\ Len(page) = Cardinality(Existing)
            /\ { page[i] : i \in 1 .. Len(page) } = Existing
            /\ \A i, j \in 1 .. Len(page) :
                  i < j =>
                      IF sort_by = "name" /\ order = "desc" THEN Name(i) > Name(j)
                      ELSE IF sort_by = "name" THEN Name(i) <= Name(j)
                      ELSE page[i] < page[j]

\* the board with the higher id has the lower name: the page by name and the
\* page by id differ, and order 'desc' leaves the page by id as it is
C14_Witness ==
    /\ Cardinality(Existing) = 2
    /\ Index(boards, "name", None) = <<2, 1>>
    /\ Index(boards, "name", "desc") = <<1, 2>>
    /\ Index(boards, "id", "desc") = <<1, 2>>
    /\ Index(boards, None, None) = <<1, 2>>

\* the entries a bulk update has added for board b
BulkAdded(b) == { e \in audit' \ audit : e.board_id = b }

\* C16 as claimed: a bulk update adds no audit entry for a board whose location
\* is the new location already, whoever the board's user was.
C16_BulkComparesLocationOnly ==
    [][ \A loc \in BulkInputs.locations, user \in BulkInputs.users :
            ( /\ last'.op = "bulk" /\ last'.res = "ok"
              /\ BulkUpdate(last'.ids, loc, user) )
                => \A b \in ElementsOf(last'.ids) \cap DOMAIN boards :
                       boards[b].location = ResolveLocation(loc[1], loc[2])
                           => BulkAdded(b) = {} ]_vars

\* C16 as amended: a bulk update adds no audit entry for a board whose location
\* is the new location already when the board's user is the updater; when the
\* user is another, it adds exactly one entry, with previous_location equal to
\* new_location and updated_by the updater (the two-field rule of update_board).
C16_BulkComparesLocationAndUser ==
    [][ \A loc \in BulkInputs.locations, user \in BulkInputs.users :
            ( /\ last'.op = "bulk" /\ last'.res = "ok"
              /\ BulkUpdate(last'.ids, loc, user) )
                => \A b \in ElementsOf(last'.ids) \cap DOMAIN boards :
                       boards[b].location = ResolveLocation(loc[1], loc[2])
                           => IF boards[b].user = user
                              THEN BulkAdded(b) = {}
                              ELSE \E e \in BulkAdded(b) :
                                       /\ BulkAdded(b) = {e}
                                       /\ e.previous_location = boards[b].location
                                       /\ e.new_location = boards[b].location
                                       /\ e.updated_by = user ]_vars

\* a bulk update over two boards at the same location, of which the updater
\* held one: the log holds one entry, from and to that location, for the other
C16_Witness ==
    /\ last.op = "bulk" /\ last.res = "ok" /\ last.count = 2
    /\ Cardinality(audit) = 1
    /\ \E e \in audit :
          /\ e.previous_location = e.new_location
          /\ e.board_id \in ElementsOf(last.ids)
          /\ created[e.board_id].location = e.new_location
          /\ created[e.board_id].user # e.updated_by
    /\ \A b \in Existing : boards[b].location = created[b].location

\* C18: a bulk update that succeeds leaves every board it found with the new
\* location and user and every other board as it was, and the entries it adds
\* pair with the boards it changed: each added entry belongs to a found board
\* whose location or user changed and holds that board's location before, its
\* location after and its user after, and each board whose location or user
\* changed has an added entry; a bulk update that fails leaves every board and
\* the log as they were.
C18_BulkAllOrNothing ==
    [][ last'.op = "bulk" =>
          IF last'.res = "ok"
          THEN \A loc \in BulkInputs.locations, user \in BulkInputs.users :
                 BulkUpdate(last'.ids, loc, user) =>
                   LET found == ElementsOf(last'.ids) \cap DOMAIN boards
                       Changed(b) == \/ boards[b].location # boards'[b].location
                                     \/ boards[b].user # boards'[b].user
                   IN  /\ DOMAIN boards' = DOMAIN boards
                       /\ audit \subseteq audit'
                       /\ \A b \in found :
                             /\ boards'[b].location = ResolveLocation(loc[1], loc[2])
                             /\ boards'[b].user = user
                       /\ \A b \in DOMAIN boards \ found : boards'[b] = boards[b]
                       /\ \A e \in audit' \ audit :
                             /\ e.board_id \in found
                             /\ Changed(e.board_id)
                             /\ e.previous_location = boards[e.board_id].location
                             /\ e.new_location = boards'[e.board_id].location
                             /\ e.updated_by = boards'[e.board_id].user
                       /\ \A b \in DOMAIN boards : Changed(b) => BulkAdded(b) # {}
          ELSE boards' = boards /\ audit' = audit ]_vars

\* a bulk update has failed in the store while two boards and an entry exist
C18_Witness ==
    /\ last.op = "bulk" /\ last.res = "StoreError"
    /\ Cardinality(Existing) = 2
    /\ audit # {}

\* C20: the audit entries of every existing board, taken by ascending id, form
\* a chain: the previous_location of the first is the location the board was
\* created with, and the previous_location of every later one is the
\* new_location of the entry before it.
C20_EntriesFormChain ==
    \A b \in Existing :
        \A e \in EntriesOf(b) :
            LET earlier == { x \in EntriesOf(b) : x.id < e.id }
            IN  IF earlier = {}
                THEN e.previous_location = created[b].location
                ELSE e.previous_location = MaxById(earlier).new_location

\* a board has moved away from the location it was created with and back
C20_Witness ==
    \E b \in Existing :
        /\ Cardinality(EntriesOf(b)) = 2
        /\ \A e \in EntriesOf(b) : e.previous_location # e.new_location
        /\ boards[b].location = created[b].location

\* C15: a demote_user or delete_user request of an administrator that names the
\* administrator's own id is turned down and leaves the table user as it was;
\* after every demote_user or delete_user request of an administrator, that
\* administrator still exists and is still an administrator.
C15_AdminKeepsOwnAccount ==
    [][ \A actor \in DOMAIN users, user_id \in AccountInputs.ids :
            ( /\ users[actor].is_admin
              /\ DemoteUser(actor, user_id) \/ DeleteUser(actor, user_id) )
                => /\ actor = user_id =>
                          /\ users' = users
                          /\ last'.res \in {"SelfDemotionError", "SelfDeletionError"}
                   /\ actor \in DOMAIN users'
                   /\ users'[actor].is_admin ]_vars

\* an administrator has asked for the deletion of the own account while a
\* second administrator exists
C15_Witness ==
    /\ last.op = "delete_user" /\ last.res = "SelfDeletionError"
    /\ last.ids = <<last.id>>
    /\ Cardinality({ u \in DOMAIN users : users[u].is_admin }) = 2

\* C12 as claimed: in every state, those reached while requests run side by side
\* included, every audit entry belongs to a board that exists.
C12_NoOrphanedEntries ==
    \A e \in audit : e.board_id \in DOMAIN boards

\* C17 as claimed: an add_board that passed its checks and commits after
\* another request has taken the name or the serial number adds no board, one
\* board has the name, and the request ends in ConflictError as it would have
\* without the race.
C17_RaceLoserGetsConflict ==
    [][ \A r \in DOMAIN pending :
            ( /\ r.op = "add"
              /\ NameUsed(boards, r.row.name) \/ SerialUsed(boards, r.row.serial_number)
              /\ AddBoardCommit(r) )
                => /\ boards' = boards
                   /\ NameUsed(boards, r.row.name) =>
                          Cardinality({ b \in DOMAIN boards' :
                                          boards'[b].name = r.row.name }) = 1
                   /\ last'.res \in {"ConflictError(name)", "ConflictError(serial)"} ]_vars

\* the request of report rep has written board b
Touches(rep, b) ==
    /\ rep.res = "ok"
    /\ \/ rep.op = "update" /\ rep.id = b
       \/ rep.op = "bulk" /\ rep.count > 0 /\ b \in ElementsOf(rep.ids)

\* C19 as claimed: when an update or bulk update of board b commits right after
\* another update or bulk update of b, having read b before that one committed,
\* the board has the location and user of the request that commits last, and
\* they are the new_location and updated_by of the board's entry with the
\* highest id.
C19_LastWriterWins ==
    [][ \A r \in DOMAIN pending, b \in IdInputs :
            ( /\ r.op \in {"update", "bulk"}
              /\ b \in DOMAIN r.loaded
              /\ Touches(last, b)
              /\ UpdateBoardCommit(r) \/ BulkUpdateCommit(r)
              /\ last'.res = "ok" )
                => /\ b \in DOMAIN boards'
                   /\ boards'[b].location = r.row.location
                   /\ boards'[b].user = r.row.user
                   /\ LET entries == { e \in audit' : e.board_id = b }
                      IN  entries # {} =>
                              /\ MaxById(entries).new_location = boards'[b].location
                              /\ MaxById(entries).updated_by = boards'[b].user ]_vars

====
